---- MODULE Spec2Model ----
(***************************************************************************)
(* Model of generate_pdf (src/app.py): the index parser and the flow       *)
(* layout loop that places glyph images left to right, top to bottom,      *)
(* wrapping lines and breaking pages.                                      *)
(*                                                                         *)
(* A Python str is a sequence of one-character strings.  "sup2" stands for *)
(* the single character U+00B2 (SUPERSCRIPT TWO): str.isdigit() accepts    *)
(* it, int() rejects it.  " " stands for any whitespace character.         *)
(* Lengths are millimetres; the asset shapes and image widths enumerated   *)
(* below are powers of two, so that w / h and new_width / aspect_ratio are *)
(* exact in floating point and equal to the integer quotients used here.   *)
(***************************************************************************)
EXTENDS Integers, Sequences, FiniteSets, TLC

(* ---------------------------------------------------------------- bounds *)

\* longest raw string enumerated character by character
MaxRawLen == 4
\* longest index list of the form _i_j_k enumerated for the layout
MaxIndices == 3

None == "None"

(* ------------------------------------------------------- Python builtins *)

Whitespace == {" "}
AsciiDigits == {"0", "1", "2", "3", "4", "5", "6", "7", "8", "9"}
\* characters with Numeric_Type=Digit that are not decimal digits
OtherDigits == {"sup2"}

DigitVal(c) ==
    CASE c = "0" -> 0 [] c = "1" -> 1 [] c = "2" -> 2 [] c = "3" -> 3
      [] c = "4" -> 4 [] c = "5" -> 5 [] c = "6" -> 6 [] c = "7" -> 7
      [] c = "8" -> 8 [] c = "9" -> 9

RECURSIVE LStrip(_)
LStrip(s) ==
    IF s # <<>> /\ Head(s) \in Whitespace THEN LStrip(Tail(s)) ELSE s

RECURSIVE RStrip(_)
RStrip(s) ==
    IF s # <<>> /\ s[Len(s)] \in Whitespace
    THEN RStrip(SubSeq(s, 1, Len(s) - 1))
    ELSE s

\* str.strip()
Strip(s) == RStrip(LStrip(s))

\* str.split('_'): always at least one token, empty tokens kept
RECURSIVE SplitAcc(_, _, _)
SplitAcc(s, cur, acc) ==
    IF s = <<>> THEN Append(acc, cur)
    ELSE IF Head(s) = "_" THEN SplitAcc(Tail(s), <<>>, Append(acc, cur))
    ELSE SplitAcc(Tail(s), Append(cur, Head(s)), acc)

Split(s) == SplitAcc(s, <<>>, <<>>)

\* str.isdigit(): non-empty and every character is a digit character
IsDigit(tok) ==
    /\ tok # <<>>
    /\ \A k \in 1..Len(tok) : tok[k] \in AsciiDigits \cup OtherDigits

\* int(s) raises ValueError unless every character is a decimal digit
IntRaises(tok) == \E k \in 1..Len(tok) : tok[k] \notin AsciiDigits

\* int(s) of a decimal token: base 10, leading zeros ignored
RECURSIVE IntOf(_)
IntOf(tok) ==
    IF tok = <<>> THEN 0
    ELSE 10 * IntOf(SubSeq(tok, 1, Len(tok) - 1)) + DigitVal(tok[Len(tok)])

RECURSIVE Select(_)
Select(toks) ==
    IF toks = <<>> THEN <<>>
    ELSE IF IsDigit(Head(toks)) THEN <<Head(toks)>> \o Select(Tail(toks))
    ELSE Select(Tail(toks))

\* the tokens the comprehension's filter lets through, in order
Digits(raw) == Select(Split(Strip(raw)))

\* the comprehension raises ValueError when int() rejects a selected token
ParseRaises(raw) ==
    \E k \in 1..Len(Digits(raw)) : IntRaises(Digits(raw)[k])

\* [int(s) for s in input_string.strip().split('_') if s.isdigit()]
ParseIndices(raw) ==
    [k \in 1..Len(Digits(raw)) |-> IntOf(Digits(raw)[k])]

(* ------------------------------------------------------ the asset folder *)

\* os.path.exists(<image_folder>/<index>.png): the files present in the
\* folder.  1, 2, 3 decode to a square, a wide and a tall image; 4 does not
\* decode; 10 and 11 decode to a zero height and a zero width; every other
\* index has no file.
Exists(index) == index \in {1, 2, 3, 4, 10, 11}

\* cv2.imread(path): decoded is FALSE when imread returns None; h, w = img.shape
ImRead(index) ==
    CASE index = 1 -> [decoded |-> TRUE, h |-> 1, w |-> 1]
      [] index = 2 -> [decoded |-> TRUE, h |-> 1, w |-> 2]
      [] index = 3 -> [decoded |-> TRUE, h |-> 2, w |-> 1]
      [] index = 10 -> [decoded |-> TRUE, h |-> 0, w |-> 1]
      [] index = 11 -> [decoded |-> TRUE, h |-> 1, w |-> 0]
      [] OTHER -> [decoded |-> FALSE, h |-> 0, w |-> 0]

\* line 49 or 50 raises: img is None (no .shape), or w / h divides by zero
RatioRaises(index) == ~ImRead(index).decoded \/ ImRead(index).h = 0

\* the try block raises: as above, or new_width / 0.0 on line 52
ReadRaises(index) == RatioRaises(index) \/ ImRead(index).w = 0

\* new_height = new_width / aspect_ratio, aspect_ratio = w / h
NewHeight(width, index) == (width * ImRead(index).h) \div ImRead(index).w

Max(a, b) == IF a >= b THEN a ELSE b

(* ------------------------------------------------------------- the state *)

VARIABLES
    input_string, x_start, y_start, max_width, max_height, image_width,
    h_gap, v_gap,
    pc, indices, pos, x, y, line_height, new_width, new_height,
    pages, images, warnings, result,
    \* history of the iteration in progress: the cursor and page count it
    \* started from, and how often each branch was taken for it
    entry, wraps, breaks

args == <<input_string, x_start, y_start, max_width, max_height,
          image_width, h_gap, v_gap>>
cursor == <<x, y, line_height>>
vars == <<args, pc, indices, pos, cursor, new_width, new_height,
          pages, images, warnings, result, entry, wraps, breaks>>
history == <<entry, wraps, breaks>>

(* ---------------------------------------------------------------- inputs *)

RECURSIVE SeqsUpTo(_, _)
SeqsUpTo(S, n) ==
    IF n = 0 THEN {<<>>}
    ELSE LET shorter == SeqsUpTo(S, n - 1)
         IN  shorter \cup {Append(s, c) : s \in shorter, c \in S}

\* raw strings, character by character
RawChars == {"_", "0", "1", "a", " ", "sup2"}
RawInputs == SeqsUpTo(RawChars, MaxRawLen)

\* strings of the documented form _i_j_k
RECURSIVE Encode(_)
Encode(ds) == IF ds = <<>> THEN <<>> ELSE <<"_", Head(ds)>> \o Encode(Tail(ds))

IndexChars == {"0", "1", "2", "3", "4"}
ListInputs == {Encode(ds) : ds \in SeqsUpTo(IndexChars, MaxIndices)}

\* the layout parameters generate_pdf is called with, scaled down from the
\* millimetre ranges of the sliders: (x_start, y_start), the writable area,
\* the image width (one wider than a max_width, which the function accepts
\* and the sliders do not produce) and (h_gap, v_gap)
Origins == {<<0, 0>>, <<1, 3>>}
MaxWidths == {3, 5}
MaxHeights == {4, 5}
ImageWidths == {2, 4}
Gaps == {<<0, 0>>, <<1, 0>>, <<0, 1>>, <<1, 1>>}

Init ==
    /\ \/ /\ input_string \in ListInputs
          /\ \E o \in Origins : x_start = o[1] /\ y_start = o[2]
          /\ max_width \in MaxWidths
          /\ max_height \in MaxHeights
          /\ image_width \in ImageWidths
          /\ \E g \in Gaps : h_gap = g[1] /\ v_gap = g[2]
       \/ /\ input_string \in RawInputs
          /\ x_start = 1 /\ y_start = 3
          /\ max_width = 5 /\ max_height = 5
          /\ image_width = 2
          /\ h_gap = 1 /\ v_gap = 1
    /\ pc = "start"
    /\ indices = <<>>
    /\ pos = 0
    /\ x = 0 /\ y = 0 /\ line_height = 0
    /\ new_width = 0 /\ new_height = 0
    /\ pages = 0
    /\ images = <<>>
    /\ warnings = <<>>
    /\ result = "pending"
    /\ entry = [x |-> 0, y |-> 0, line_height |-> 0, pages |-> 0]
    /\ wraps = 0 /\ breaks = 0

(* --------------------------------------------------------------- actions *)

Warning(what, index) == [level |-> "warning", what |-> what, index |-> index]
Error(what) == [level |-> "error", what |-> what, index |-> 0]

\* Parse without the "if not indices" return
ParseNoEmptyCheck ==
    /\ pc = "start"
    /\ \/ /\ ParseRaises(input_string)
          /\ warnings' = Append(warnings, Error("format"))
          /\ result' = None
          /\ pc' = "done"
          /\ UNCHANGED <<indices, pos, cursor, pages>>
       \/ /\ ~ParseRaises(input_string)
          /\ indices' = ParseIndices(input_string)
          /\ pages' = 1
          /\ x' = x_start /\ y' = y_start
          /\ line_height' = 0
          /\ pos' = 1
          /\ pc' = "loop"
          /\ UNCHANGED <<warnings, result>>
    /\ UNCHANGED <<args, new_width, new_height, images, history>>

\* lines 27-34 and 36-40: parse, then FPDF(), add_page(), the cursor
Parse ==
    /\ pc = "start"
    /\ \/ /\ ParseRaises(input_string)
          /\ warnings' = Append(warnings, Error("format"))
          /\ result' = None
          /\ pc' = "done"
          /\ UNCHANGED <<indices, pos, cursor, pages>>
       \/ /\ ~ParseRaises(input_string)
          /\ ParseIndices(input_string) = <<>>
          /\ warnings' = Append(warnings, Warning("empty", 0))
          /\ result' = None
          /\ pc' = "done"
          /\ UNCHANGED <<indices, pos, cursor, pages>>
       \/ /\ ~ParseRaises(input_string)
          /\ ParseIndices(input_string) # <<>>
          /\ indices' = ParseIndices(input_string)
          /\ pages' = 1
          /\ x' = x_start /\ y' = y_start
          /\ line_height' = 0
          /\ pos' = 1
          /\ pc' = "loop"
          /\ UNCHANGED <<warnings, result>>
    /\ UNCHANGED <<args, new_width, new_height, images, history>>

\* SkipMissing without the st.warning of line 73
SkipMissingSilently ==
    /\ pc = "loop"
    /\ pos <= Len(indices)
    /\ ~Exists(indices[pos])
    /\ pos' = pos + 1
    /\ UNCHANGED <<args, pc, indices, cursor, new_width, new_height,
                   pages, images, warnings, result, history>>

\* lines 42-45, 72-73: the file does not exist
SkipMissing ==
    /\ pc = "loop"
    /\ pos <= Len(indices)
    /\ ~Exists(indices[pos])
    /\ warnings' = Append(warnings, Warning("missing", indices[pos]))
    /\ pos' = pos + 1
    /\ UNCHANGED <<args, pc, indices, cursor, new_width, new_height,
                   pages, images, result, history>>

\* SkipUnreadable with "return None" in place of "continue"
SkipUnreadableFatal ==
    /\ pc = "loop"
    /\ pos <= Len(indices)
    /\ Exists(indices[pos])
    /\ ReadRaises(indices[pos])
    /\ new_width' = (IF RatioRaises(indices[pos]) THEN new_width
                     ELSE image_width)
    /\ warnings' = Append(warnings, Warning("unreadable", indices[pos]))
    /\ result' = None
    /\ pc' = "done"
    /\ UNCHANGED <<args, indices, pos, cursor, new_height,
                   pages, images, history>>

\* lines 46-55: the try block raises
SkipUnreadable ==
    /\ pc = "loop"
    /\ pos <= Len(indices)
    /\ Exists(indices[pos])
    /\ ReadRaises(indices[pos])
    /\ new_width' = (IF RatioRaises(indices[pos]) THEN new_width
                     ELSE image_width)
    /\ warnings' = Append(warnings, Warning("unreadable", indices[pos]))
    /\ pos' = pos + 1
    /\ UNCHANGED <<args, pc, indices, cursor, new_height,
                   pages, images, result, history>>

\* Measure with the width clamped to the writable width
MeasureShrinkToFit ==
    /\ pc = "loop"
    /\ pos <= Len(indices)
    /\ Exists(indices[pos])
    /\ ~ReadRaises(indices[pos])
    /\ new_width' = (IF image_width > max_width THEN max_width
                     ELSE image_width)
    /\ new_height' = NewHeight(new_width', indices[pos])
    /\ entry' = [x |-> x, y |-> y, line_height |-> line_height,
                  pages |-> pages]
    /\ wraps' = 0 /\ breaks' = 0
    /\ pc' = "wrap"
    /\ UNCHANGED <<args, indices, pos, cursor, pages, images, warnings,
                   result>>

\* lines 46-52: the try block succeeds
Measure ==
    /\ pc = "loop"
    /\ pos <= Len(indices)
    /\ Exists(indices[pos])
    /\ ~ReadRaises(indices[pos])
    /\ new_width' = image_width
    /\ new_height' = NewHeight(image_width, indices[pos])
    /\ entry' = [x |-> x, y |-> y, line_height |-> line_height,
                  pages |-> pages]
    /\ wraps' = 0 /\ breaks' = 0
    /\ pc' = "wrap"
    /\ UNCHANGED <<args, indices, pos, cursor, pages, images, warnings,
                   result>>

\* line 58 with >= for >
ExceedsWidthOrTouches == x + new_width >= x_start + max_width

\* line 58
ExceedsWidth == x + new_width > x_start + max_width

\* lines 57-61
WrapTest ==
    /\ pc = "wrap"
    /\ IF ExceedsWidth
       THEN /\ x' = x_start
            /\ y' = y + line_height + v_gap
            /\ line_height' = 0
            /\ wraps' = wraps + 1
       ELSE UNCHANGED <<cursor, wraps>>
    /\ pc' = "page"
    /\ UNCHANGED <<args, indices, pos, new_width, new_height, pages,
                   images, warnings, result, entry, breaks>>

\* line 64 with >= for >
ExceedsHeightOrTouches == y + new_height >= y_start + max_height

\* line 64 without the image's height
ExceedsHeightOfCursor == y > y_start + max_height

\* line 64
ExceedsHeight == y + new_height > y_start + max_height

\* lines 63-67
PageTest ==
    /\ pc = "page"
    /\ IF ExceedsHeight
       THEN /\ pages' = pages + 1
            /\ x' = x_start /\ y' = y_start
            /\ line_height' = 0
            /\ breaks' = breaks + 1
       ELSE UNCHANGED <<cursor, pages, breaks>>
    /\ pc' = "place"
    /\ UNCHANGED <<args, indices, pos, new_width, new_height, images,
                   warnings, result, entry, wraps>>

\* line 69: pdf.image(image_path, x, y, new_width, new_height) on the current page
Placement ==
    [page |-> pages, index |-> indices[pos], x |-> x, y |-> y,
     w |-> new_width, h |-> new_height]

\* Place with line_height = new_height in place of the max
PlaceLastHeight ==
    /\ pc = "place"
    /\ images' = Append(images, Placement)
    /\ x' = x + new_width + h_gap
    /\ line_height' = new_height
    /\ pos' = pos + 1
    /\ pc' = "loop"
    /\ UNCHANGED <<args, indices, y, new_width, new_height, pages,
                   warnings, result, history>>

\* lines 69-71
Place ==
    /\ pc = "place"
    /\ images' = Append(images, Placement)
    /\ x' = x + new_width + h_gap
    /\ line_height' = Max(line_height, new_height)
    /\ pos' = pos + 1
    /\ pc' = "loop"
    /\ UNCHANGED <<args, indices, y, new_width, new_height, pages,
                   warnings, result, history>>

\* line 76: the loop is exhausted
Serialize ==
    /\ pc = "loop"
    /\ pos > Len(indices)
    /\ result' = "bytes"
    /\ pc' = "done"
    /\ UNCHANGED <<args, indices, pos, cursor, new_width, new_height,
                   pages, images, warnings, history>>

Next ==
    \/ Parse
    \/ SkipMissing
    \/ SkipUnreadable
    \/ Measure
    \/ WrapTest
    \/ PageTest
    \/ Place
    \/ Serialize

Spec == Init /\ [][Next]_vars

(* ------------------------------------------------ vocabulary of the claims *)

Last(q) == q[Len(q)]

\* a token as the parser contract describes it: a non-empty run of decimal digits
DecimalToken(tok) ==
    tok # <<>> /\ \A k \in 1..Len(tok) : tok[k] \in AsciiDigits

RECURSIVE DecimalValues(_)
DecimalValues(toks) ==
    IF toks = <<>> THEN <<>>
    ELSE IF DecimalToken(Head(toks))
         THEN <<IntOf(Head(toks))>> \o DecimalValues(Tail(toks))
         ELSE DecimalValues(Tail(toks))

\* the index sequence the contract prescribes for a raw string
ContractIndices(raw) == DecimalValues(Split(raw))

\* the same, for the raw string with its surrounding whitespace removed
TrimmedContractIndices(raw) == DecimalValues(Split(Strip(raw)))

Readable(index) == Exists(index) /\ ~ReadRaises(index)

RECURSIVE Filter(_, _)
Filter(q, keep) ==
    IF q = <<>> THEN <<>>
    ELSE IF Head(q) \in keep THEN <<Head(q)>> \o Filter(Tail(q), keep)
    ELSE Filter(Tail(q), keep)

IndexSet == {indices[k] : k \in 1..Len(indices)}
ReadableSet == {i \in IndexSet : Readable(i)}
\* the indices whose iteration is over
Handled == SubSeq(indices, 1, pos - 1)

ImageIndices == [k \in 1..Len(images) |-> images[k].index]
WarningIndices == [k \in 1..Len(warnings) |-> warnings[k].index]

PerIndexWarnings ==
    {k \in 1..Len(warnings) : warnings[k].what \in {"missing", "unreadable"}}

InBody == pc \in {"wrap", "page", "place"}

FirstOnPage(k) ==
    \A j \in 1..(k - 1) : images[j].page # images[k].page
FirstInRow(k) ==
    \A j \in 1..(k - 1) :
        images[j].page # images[k].page \/ images[j].y # images[k].y

Disjoint(p, q) ==
    \/ p.x + p.w <= q.x
    \/ q.x + q.w <= p.x
    \/ p.y + p.h <= q.y
    \/ q.y + q.h <= p.y

(* ---------------------------------------------------------------- claims *)

\* C1: a token that is not a non-empty run of decimal digits is dropped
\* silently and never makes the call fail: whenever at least one token of
\* the raw input is such a run, the call ends with a document.
C1_OtherTokensNeverFail ==
    (pc = "done" /\ ContractIndices(input_string) # <<>>)
        => result = "bytes"

\* C2 as stated: if no token of the raw input is a non-empty run of decimal
\* digits, the call fails before any layout work: no page, no asset
\* resolved, no placement, no byte buffer.
C2_NoRawTokenFails ==
    ContractIndices(input_string) = <<>>
        => /\ pages = 0
           /\ images = <<>>
           /\ PerIndexWarnings = {}
           /\ pc \in {"start", "done"}
           /\ pc = "done" => result = None

\* C2 amended: if no token of the input with its surrounding whitespace
\* removed is a non-empty run of decimal digits, the call fails before any
\* layout work: one diagnostic, no page, no asset resolved, no placement,
\* no byte buffer.
C2_NoTrimmedTokenFails ==
    TrimmedContractIndices(input_string) = <<>>
        => /\ pages = 0
           /\ images = <<>>
           /\ PerIndexWarnings = {}
           /\ pc \in {"start", "done"}
           /\ pc = "done" => (result = None /\ Len(warnings) = 1)

C2_Witness ==
    /\ pc = "done"
    /\ input_string = <<"_", "_">>
    /\ result = None

\* C3: an index whose asset is missing or unreadable (zero height included)
\* records one diagnostic, emits no placement, leaves the cursor and the
\* page count unchanged and moves to the next index; a run that parsed at
\* least one index ends in a successful result, with exactly one page and
\* no placement when every index was skipped.
C3_SkipStep ==
    (pc = "loop" /\ pos <= Len(indices) /\ ~Readable(indices[pos]))
        => /\ Len(warnings') = Len(warnings) + 1
           /\ Last(warnings').index = indices[pos]
           /\ Last(warnings').level = "warning"
           /\ UNCHANGED <<images, cursor, pages, indices, result>>
           /\ pos' = pos + 1
           /\ pc' = "loop"

C3_SkipsAreNotFatal ==
    /\ [][C3_SkipStep]_vars
    /\ []((pc = "done" /\ indices # <<>>) => result = "bytes")
    /\ []((pc = "done" /\ indices # <<>> /\ ReadableSet = {})
            => (pages = 1 /\ images = <<>>
                /\ Len(warnings) = Len(indices)))

C3_Witness ==
    /\ pc = "done"
    /\ result = "bytes"
    /\ pages = 1
    /\ images = <<>>
    /\ \E j, k \in 1..Len(warnings) :
          warnings[j].what = "missing" /\ warnings[k].what = "unreadable"
            /\ warnings[k].index \in {10, 11}

\* C4: the line wrap happens exactly when x + new_width > x_start + max_width
\* (equality stays on the row, cursor untouched); a wrap sets x = x_start,
\* y = y + line_height + v_gap, line_height = 0, and the page-break test
\* comes next.
C4_WrapStep ==
    pc = "wrap"
        => /\ pc' = "page"
           /\ UNCHANGED <<pages, images>>
           /\ IF x + new_width > x_start + max_width
              THEN /\ wraps' = wraps + 1
                   /\ x' = x_start
                   /\ y' = y + line_height + v_gap
                   /\ line_height' = 0
              ELSE UNCHANGED <<wraps, cursor>>

C4_WrapIffStrictOverflow == [][C4_WrapStep]_vars

\* an image placed flush with the right edge without wrapping, then a wrap
C4_Witness ==
    /\ pc = "page"
    /\ wraps = 1
    /\ \E k \in 1..Len(images) :
          /\ images[k].x > x_start
          /\ images[k].x + images[k].w = x_start + max_width

\* C5: with y the value after the line wrap of the same index, the page
\* break happens exactly when y + new_height > y_start + max_height; it adds
\* one page and resets the cursor to (x_start, y_start, 0), so the image
\* that triggered it is the first placement of the new page, at
\* (x_start, y_start).
C5_PageBreakIffStrictOverflow ==
    LET wrapped == entry.x + new_width > x_start + max_width
        yw == IF wrapped THEN entry.y + entry.line_height + v_gap
              ELSE entry.y
        broke == yw + new_height > y_start + max_height
    IN  /\ pc = "place"
            => /\ breaks = (IF broke THEN 1 ELSE 0)
               /\ IF broke
                  THEN /\ pages = entry.pages + 1
                       /\ x = x_start /\ y = y_start /\ line_height = 0
                  ELSE /\ pages = entry.pages
                       /\ y = yw
        /\ \A k \in 1..Len(images) :
              (images[k].page > 1 /\ FirstOnPage(k))
                  => (images[k].x = x_start /\ images[k].y = y_start)

\* a wrap and a page break for one index
C5_Witness ==
    /\ pc = "place"
    /\ wraps = 1
    /\ breaks = 1
    /\ images # <<>>

\* C6: the first placement of every row is at x = x_start and the first
\* placement of every page is at y = y_start.
C6_NoGapBeforeFirst ==
    \A k \in 1..Len(images) :
        /\ FirstInRow(k) => images[k].x = x_start
        /\ FirstOnPage(k) => images[k].y = y_start

\* C7: an image wider than max_width is placed, unshrunk, at x = x_start and
\* at the cursor's y; the wrap branch is taken once for it.
C7_PlaceStep ==
    (pc = "place" /\ image_width > max_width)
        => /\ Len(images') = Len(images) + 1
           /\ Last(images').w = image_width
           /\ Last(images').h = NewHeight(image_width, indices[pos])
           /\ Last(images').x = x_start
           /\ Last(images').x = x
           /\ Last(images').y = y

C7_OversizedPlacedUnshrunk ==
    /\ [][C7_PlaceStep]_vars
    /\ []((InBody /\ image_width > max_width) => wraps <= 1)
    /\ []((pc = "place" /\ image_width > max_width) => wraps = 1)

C7_Witness ==
    /\ pc = "loop"
    /\ image_width > max_width
    /\ Len(images) >= 2
    /\ Last(images).w > max_width

\* C8: the layout is one forward pass that ends with the serialization:
\* every index handled so far has produced exactly one outcome, the
\* placements are the readable indices in input order (one per occurrence),
\* the diagnostics are the others, and no earlier placement is changed.
C8_OneOutcomeEach ==
    pc # "start" /\ indices # <<>>
        => /\ pos \in 1..(Len(indices) + 1)
           /\ ImageIndices = Filter(Handled, ReadableSet)
           /\ WarningIndices = Filter(Handled, IndexSet \ ReadableSet)
           /\ pc = "done" => (pos = Len(indices) + 1 /\ result = "bytes")

\* the number of steps the call can still take, at most
StepsLeft ==
    CASE pc = "start" -> 4 * Len(input_string) + 2
      [] pc = "loop" -> 4 * (Len(indices) - pos + 1) + 1
      [] pc = "wrap" -> 4 * (Len(indices) - pos + 1)
      [] pc = "page" -> 4 * (Len(indices) - pos + 1) - 1
      [] pc = "place" -> 4 * (Len(indices) - pos + 1) - 2
      [] pc = "done" -> 0

C8_ForwardStep ==
    /\ pos' \in {pos, pos + 1}
    /\ Len(images') \in {Len(images), Len(images) + 1}
    /\ SubSeq(images', 1, Len(images)) = images
    /\ StepsLeft' < StepsLeft

\* a step of the loop, or the serialization that follows it
LayoutStep ==
    \/ SkipMissing \/ SkipUnreadable \/ Measure
    \/ WrapTest \/ PageTest \/ Place
    \/ Serialize

\* termination: every step lowers StepsLeft, which is never negative, and
\* the layout always has a step to take until the call has returned
C8_SingleForwardPass ==
    /\ []C8_OneOutcomeEach
    /\ [][C8_ForwardStep]_vars
    /\ [](StepsLeft >= 0)
    /\ [](pc \notin {"start", "done"} => ENABLED LayoutStep)

\* a repeated index placed twice, and a skipped index between
C8_Witness ==
    /\ pc = "done"
    /\ result = "bytes"
    /\ warnings # <<>>
    /\ \E j, k \in 1..Len(images) :
          j < k /\ images[j].index = images[k].index

\* C9: when image_width <= max_width and every readable image's height is
\* at most max_height, every placement lies inside the writable region.
C9_PlacementsInsideRegion ==
    (/\ image_width <= max_width
     /\ \A i \in ReadableSet : NewHeight(image_width, i) <= max_height)
        => \A k \in 1..Len(images) :
              /\ x_start <= images[k].x
              /\ images[k].x + images[k].w <= x_start + max_width
              /\ y_start <= images[k].y
              /\ images[k].y + images[k].h <= y_start + max_height

\* placements flush with the right edge and with the bottom edge
C9_Witness ==
    /\ pc = "done"
    /\ image_width <= max_width
    /\ \A i \in ReadableSet : NewHeight(image_width, i) <= max_height
    /\ pages >= 2
    /\ \E k \in 1..Len(images) :
          images[k].x + images[k].w = x_start + max_width
    /\ \E k \in 1..Len(images) :
          images[k].y + images[k].h = y_start + max_height

\* C10: no two placements of a page overlap; within a row each placement
\* starts at least new_width + h_gap after the previous one, and a new row
\* starts at or below the bottom of every image of the rows before it plus
\* v_gap.
C10_NoOverlap ==
    \A j, k \in 1..Len(images) :
        (j < k /\ images[j].page = images[k].page)
            => /\ Disjoint(images[j], images[k])
               /\ images[j].y = images[k].y
                    => images[k].x >= images[j].x + images[j].w + h_gap
               /\ images[j].y # images[k].y
                    => images[k].y >= images[j].y + images[j].h + v_gap

\* a row whose tallest image is not its last, followed by a second row
C10_Witness ==
    \E i, j, k \in 1..Len(images) :
        /\ i < j /\ j < k
        /\ images[i].page = images[k].page
        /\ images[i].y = images[j].y
        /\ images[i].h > images[j].h
        /\ images[k].y > images[j].y

====
